---- MODULE Spec2Model ----
(***************************************************************************)
(* Model of pedernot/checks: the check-run client and annotation parsers   *)
(* of checks/checks.py and the CI pipeline of tasks.py.                    *)
(*                                                                         *)
(* Text is modelled as a sequence of one-character strings, so that        *)
(* str.partition, str.rpartition, str.isdigit, int() and str.strip are     *)
(* computed character by character as Python computes them.                *)
(***************************************************************************)
EXTENDS Integers, Sequences, FiniteSets, TLC

VARIABLES
    lines,       \* parser input: the sequence of text lines handed to a parser
    dialect,     \* which parser the lines are meant for: "pylint" or "mypy"
    parsed,      \* outcome of the parse: pending, ok(annotations, conclusion) or raise
    check_runs,  \* the remote listing of check runs for the commit, in listing order
    next_id,     \* next id the remote assigns to a created check run
    last,        \* outcome of the last client call (start / conclude)
    status,      \* status of every task of the pipeline
    pc,          \* position of every task inside its run() body
    rstate,      \* the run state shared by the tasks (self.state)
    locals,      \* the local variables of every task's run() body
    env,         \* environment inputs of get_ctx
    ctx_out      \* outcome of get_ctx

vars == <<lines, dialect, parsed, check_runs, next_id, last, status, pc, rstate, locals, env, ctx_out>>

parseVars == <<lines, dialect, parsed>>
remoteVars == <<check_runs, next_id>>
taskVars == <<status, pc, rstate, locals>>
ctxVars == <<env, ctx_out>>

\* ---------------------------------------------------------------- bounds
MaxLines == 3
MaxRuns == 2

\* ---------------------------------------------------------------- text
None == [kind |-> "None"]

Digits == {"0", "1", "2", "3", "4", "5", "6", "7", "8", "9"}

Whitespace == {" ", "\t", "\r", "\n"}

\* index of the first occurrence of sep in s, 0 when there is none
RECURSIVE FindFrom(_, _, _)
FindFrom(s, sep, i) ==
    IF i + Len(sep) - 1 > Len(s) THEN 0
    ELSE IF SubSeq(s, i, i + Len(sep) - 1) = sep THEN i
    ELSE FindFrom(s, sep, i + 1)

\* index of the last occurrence of sep in s, 0 when there is none
RECURSIVE RFindFrom(_, _, _)
RFindFrom(s, sep, i) ==
    IF i < 1 THEN 0
    ELSE IF SubSeq(s, i, i + Len(sep) - 1) = sep THEN i
    ELSE RFindFrom(s, sep, i - 1)

\* the three parts of s around the separator found at index i
SplitAt(s, sep, i) == <<SubSeq(s, 1, i - 1), sep, SubSeq(s, i + Len(sep), Len(s))>>

\* str.partition(sep): <<head, sep, tail>> around the first sep, <<s, "", "">> without one
partition(s, sep) ==
    IF FindFrom(s, sep, 1) = 0 THEN <<s, <<>>, <<>>>>
    ELSE SplitAt(s, sep, FindFrom(s, sep, 1))

\* str.rpartition(sep): <<head, sep, tail>> around the last sep, <<"", "", s>> without one
rpartition(s, sep) ==
    IF RFindFrom(s, sep, Len(s) - Len(sep) + 1) = 0 THEN <<<<>>, <<>>, s>>
    ELSE SplitAt(s, sep, RFindFrom(s, sep, Len(s) - Len(sep) + 1))

\* str.isdigit(): non-empty and every character a digit
isdigit(s) == Len(s) > 0 /\ \A i \in 1..Len(s) : s[i] \in Digits

DigitVal(c) ==
    CASE c = "0" -> 0 [] c = "1" -> 1 [] c = "2" -> 2 [] c = "3" -> 3 [] c = "4" -> 4
      [] c = "5" -> 5 [] c = "6" -> 6 [] c = "7" -> 7 [] c = "8" -> 8 [] c = "9" -> 9

\* int(s) of a digit string
RECURSIVE int(_)
int(s) ==
    IF Len(s) = 0 THEN 0
    ELSE 10 * int(SubSeq(s, 1, Len(s) - 1)) + DigitVal(s[Len(s)])

RECURSIVE lstrip(_)
lstrip(s) ==
    IF Len(s) > 0 /\ s[1] \in Whitespace THEN lstrip(Tail(s)) ELSE s

RECURSIVE rstrip(_)
rstrip(s) ==
    IF Len(s) > 0 /\ s[Len(s)] \in Whitespace THEN rstrip(SubSeq(s, 1, Len(s) - 1)) ELSE s

\* str.strip()
strip(s) == rstrip(lstrip(s))

\* ---------------------------------------------------------------- data model
FAILURE == "failure"
WARNING == "warning"
NOTICE == "notice"

Raise(e) == [kind |-> "raise", err |-> e]

Loc(path, line_no) == [kind |-> "Loc", path |-> path, line_no |-> line_no]

Annotation(loc, level, msg, title) ==
    [kind |-> "Annotation", loc |-> loc, level |-> level, msg |-> msg, title |-> title]

\* the AssertionError of an `assert False`
AssertionError == "AssertionError"

\* from_mypy_level taking every level token for a failure
from_mypy_level_any(level) == FAILURE

\* AnnotationLevel.from_mypy_level: a level, or AssertionError when it raises
from_mypy_level(level) ==
    IF level = <<"e", "r", "r", "o", "r">> THEN FAILURE
    ELSE AssertionError

\* from_pylint_level with W taken for a notice
from_pylint_level_w_notice(level) ==
    IF level \in {"E", "F"} THEN FAILURE
    ELSE IF level \in {"W", "R", "C"} THEN NOTICE
    ELSE AssertionError

\* AnnotationLevel.from_pylint_level (level is one character): a level, or
\* AssertionError when it raises
from_pylint_level(level) ==
    IF level \in {"E", "F"} THEN FAILURE
    ELSE IF level = "W" THEN WARNING
    ELSE IF level \in {"R", "C"} THEN NOTICE
    ELSE AssertionError

\* ---------------------------------------------------------------- parsers
\* parse_loc, after loc.partition(":") gave p2 = <<path, ":", line_no>>
LocOfPath(line, rest, p2) ==
    IF Len(p2[1]) = 0 \/ Len(p2[3]) = 0 THEN <<None, line>>
    ELSE IF ~isdigit(p2[3]) THEN <<None, line>>
    ELSE <<Loc(p2[1], int(p2[3])), rest>>

\* parse_loc, after line.partition(": ") gave p1 = <<loc, ": ", rest>>
LocOf(line, p1) ==
    IF Len(p1[1]) = 0 THEN <<None, line>>
    ELSE LocOfPath(line, p1[3], partition(p1[1], <<":">>))

\* parse_loc: <<Loc or None, rest>>
parse_loc(line) == LocOf(line, partition(line, <<":", " ">>))

\* extract_between, from p1 = line.partition(lsep) and the split p2 of its tail
BetweenOf(p1, p2) == <<p1[1], p2[1], p2[3]>>

\* extract_between: <<before, extracted, after>>, extracted running from after
\* the first lsep to the last rsep
extract_between(lsep, rsep, line) ==
    BetweenOf(partition(line, lsep), rpartition(partition(line, lsep)[3], rsep))

\* parse_mypy_line, after rest.partition(": ") gave p = <<level, ": ", msg>>
MypyAnnotation(loc, p) ==
    IF from_mypy_level(p[1]) = AssertionError THEN Raise(AssertionError)
    ELSE Annotation(loc, from_mypy_level(p[1]), p[3], <<>>)

\* parse_mypy_line, after parse_loc gave pl = <<loc, rest>>
MypyLocated(pl) ==
    IF pl[1].kind = "None" THEN None
    ELSE MypyAnnotation(pl[1], partition(pl[2], <<":", " ">>))

\* parse_mypy_line: None, an Annotation, or the error raised
parse_mypy_line(line) == MypyLocated(parse_loc(line))

\* parse_pylint_line, the Annotation built from error_code, error_name and msg
\* (error_code[0] of an empty error_code is an IndexError)
PylintAnnotation(loc, msg, e2) ==
    IF Len(e2[1]) = 0 THEN Raise("IndexError")
    ELSE IF from_pylint_level(e2[1][1]) = AssertionError THEN Raise(AssertionError)
    ELSE Annotation(loc, from_pylint_level(e2[1][1]), strip(msg), e2[2])

\* parse_pylint_line, after extract_between("[", "]", rest) gave
\* e1 = <<_, error_spec, msg>>
PylintSpec(loc, e1) ==
    PylintAnnotation(loc, e1[3], extract_between(<<"(">>, <<")">>, e1[2]))

\* parse_pylint_line, after parse_loc gave pl = <<loc, rest>>
PylintLocated(pl) ==
    IF pl[1].kind = "None" THEN None
    ELSE PylintSpec(pl[1], extract_between(<<"[">>, <<"]">>, pl[2]))

\* parse_pylint_line: None, an Annotation, or the error raised
parse_pylint_line(line) == PylintLocated(parse_loc(line))

Ok(annotations) == [kind |-> "ok", annotations |-> annotations]

\* the parser of a dialect applied to one line
ParseLine(parser, line) ==
    IF parser = "pylint" THEN parse_pylint_line(line) ELSE parse_mypy_line(line)

\* skip_nones and list(): a is the outcome of the first line, rest the outcome
\* of the lines after it
Collect(a, rest) ==
    IF a.kind = "raise" THEN a
    ELSE IF rest.kind = "raise" THEN rest
    ELSE IF a.kind = "None" THEN rest
    ELSE Ok(<<a>> \o rest.annotations)

\* parse_annotations(parser, lines) = list(skip_nones(map(parser, lines))):
\* the lines are parsed in order, None results are skipped and the first
\* error aborts the whole parse
RECURSIVE parse_annotations(_, _)
parse_annotations(parser, ls) ==
    IF Len(ls) = 0 THEN Ok(<<>>)
    ELSE Collect(ParseLine(parser, Head(ls)), parse_annotations(parser, Tail(ls)))

\* parse_mypy / parse_pylint: the Annotations batch (title, summary, annotations)
Annotations(title, summary, res) ==
    IF res.kind = "raise" THEN res
    ELSE [kind |-> "Annotations", title |-> title, summary |-> summary,
          annotations |-> res.annotations]

parse_mypy(ls) == Annotations("Mypy", "Result of mypy checks", parse_annotations("mypy", ls))

parse_pylint(ls) == Annotations("Pylint", "Result of pylint checks", parse_annotations("pylint", ls))

\* get_conclusion with warnings reported as neutral
get_conclusion_warning_neutral(annotations) ==
    IF \E i \in DOMAIN annotations.annotations : annotations.annotations[i].level = FAILURE
    THEN "failure"
    ELSE IF \E i \in DOMAIN annotations.annotations : annotations.annotations[i].level = WARNING
    THEN "neutral"
    ELSE IF \E i \in DOMAIN annotations.annotations : annotations.annotations[i].level = NOTICE
    THEN "neutral"
    ELSE "success"

\* get_conclusion
get_conclusion(annotations) ==
    IF \E i \in DOMAIN annotations.annotations : annotations.annotations[i].level = FAILURE
    THEN "failure"
    ELSE IF \E i \in DOMAIN annotations.annotations : annotations.annotations[i].level = WARNING
    THEN "failure"
    ELSE IF \E i \in DOMAIN annotations.annotations : annotations.annotations[i].level = NOTICE
    THEN "neutral"
    ELSE "success"

\* ---------------------------------------------------------------- parser inputs
\* a linter line "path:line: [code(rule)] msg"
PylintLine(path, line_no, code, rule, msg) ==
    path \o <<":">> \o line_no \o <<":", " ">> \o <<"[">> \o code \o <<"(">> \o rule
         \o <<")">> \o <<"]", " ">> \o msg

\* a type-checker line "path:line: level: msg"
MypyLine(path, line_no, level, msg) ==
    path \o <<":">> \o line_no \o <<":", " ">> \o level \o <<":", " ">> \o msg

GenPaths == {<<"a">>, <<"s", "/", "x">>}

GenLineNos == {<<"5">>, <<"1", "0">>}

GenCodes == {<<"E", "1">>, <<"F">>, <<"W", "0">>, <<"R">>, <<"C", "9">>, <<"I", "1">>, <<"X">>}

GenRules == {<<"r">>, <<"u", "-", "i">>}

GenMsgs == {<<"m">>, <<" ", "m", " ">>, <<"x", "]", "y">>, <<"f", "(", "x", ")">>}

GenLevels == {<<"e", "r", "r", "o", "r">>, <<"n", "o", "t", "e">>, <<"w", "a", "r", "n", "i", "n", "g">>}

GenMypyMsgs == {<<"m">>, <<"a", ":", " ", "b">>}

\* "src/x.py:5:1: W0611 (unused-import) foo imported but unused"
ScenarioLine ==
    <<"s", "r", "c", "/", "x", ".", "p", "y", ":", "5", ":", "1", ":", " ", "W", "0", "6",
      "1", "1", " ", "(", "u", "n", "u", "s", "e", "d", "-", "i", "m", "p", "o", "r", "t",
      ")", " ", "f", "o", "o", " ", "i", "m", "p", "o", "r", "t", "e", "d", " ", "b", "u",
      "t", " ", "u", "n", "u", "s", "e", "d">>

\* "src/x.py:5: [W0611(unused-import)] foo imported but unused"
BracketedScenarioLine ==
    <<"s", "r", "c", "/", "x", ".", "p", "y", ":", "5", ":", " ", "[", "W", "0", "6", "1",
      "1", "(", "u", "n", "u", "s", "e", "d", "-", "i", "m", "p", "o", "r", "t", ")", "]",
      " ", "f", "o", "o", " ", "i", "m", "p", "o", "r", "t", "e", "d", " ", "b", "u", "t",
      " ", "u", "n", "u", "s", "e", "d">>

\* "src/app.py:10: error: bad type"
MypyScenarioLine ==
    <<"s", "r", "c", "/", "a", "p", "p", ".", "p", "y", ":", "1", "0", ":", " ", "e", "r",
      "r", "o", "r", ":", " ", "b", "a", "d", " ", "t", "y", "p", "e">>

\* "note: unrelated"
NoteLine == <<"n", "o", "t", "e", ":", " ", "u", "n", "r", "e", "l", "a", "t", "e", "d">>

\* the lines parsed one at a time
SingleLines ==
    {PylintLine(p, n, c, r, m) : p \in GenPaths, n \in GenLineNos, c \in GenCodes,
                                 r \in GenRules, m \in GenMsgs}
    \cup {MypyLine(p, n, l, m) : p \in GenPaths, n \in GenLineNos, l \in GenLevels,
                                 m \in GenMypyMsgs}
    \cup {ScenarioLine, BracketedScenarioLine, MypyScenarioLine, NoteLine}

\* the lines a tool's output is made of when several lines are parsed
OutputLines ==
    {PylintLine(<<"a">>, <<"5">>, <<"E", "1">>, <<"r">>, <<"m">>),
     PylintLine(<<"a">>, <<"7">>, <<"W", "0">>, <<"r">>, <<"m">>),
     PylintLine(<<"a">>, <<"9">>, <<"C", "9">>, <<"r">>, <<"m">>),
     PylintLine(<<"a">>, <<"2">>, <<"I", "1">>, <<"r">>, <<"m">>),
     MypyLine(<<"a">>, <<"5">>, <<"e", "r", "r", "o", "r">>, <<"m">>),
     MypyLine(<<"a">>, <<"3">>, <<"n", "o", "t", "e">>, <<"m">>),
     NoteLine,
     <<>>}

SeqsUpTo(S, n) == UNION {[1..k -> S] : k \in 0..n}

ParseInputs == {<<l>> : l \in SingleLines} \cup SeqsUpTo(OutputLines, MaxLines)

Pending == [kind |-> "pending"]

\* the completing payload of conclude for a parsed batch: the batch and its
\* conclusion, or the error the parse raised
Payload(annotations) ==
    IF annotations.kind = "raise" THEN annotations
    ELSE [kind |-> "ok", conclusion |-> get_conclusion(annotations),
          annotations |-> annotations]

\* conclude, derived mode: the parser is chosen by the check name
Derived(check_name, from_lines) ==
    Payload(IF check_name = "pylint" THEN parse_pylint(from_lines)
            ELSE parse_mypy(from_lines))

\* ---------------------------------------------------------------- parse actions
ParsePylint ==
    /\ parsed = Pending
    /\ dialect' = "pylint"
    /\ parsed' = Derived("pylint", lines)
    /\ UNCHANGED <<lines, remoteVars, last, taskVars, ctxVars>>

ParseMypy ==
    /\ parsed = Pending
    /\ dialect' = "mypy"
    /\ parsed' = Derived("mypy", lines)
    /\ UNCHANGED <<lines, remoteVars, last, taskVars, ctxVars>>

\* ---------------------------------------------------------------- remote check runs
CheckNames == {"ci", "pylint", "mypy"}

\* the names the client is called with when it is driven call by call
ClientNames == {"ci", "pylint"}

Conclusions == {"success", "failure", "neutral"}

NoConclusion == "null"

\* the remote side of start's POST check-runs: a new check run in_progress under a
\* fresh id; the listing returns the most recently created run first
RemoteCreate(runs, id, check_name) ==
    <<[id |-> id, name |-> check_name, status |-> "in_progress",
       conclusion |-> NoConclusion]>> \o runs

\* an update that reaches every check run with the name of the one addressed
RemoteUpdateSameName(runs, id, conclusion) ==
    [i \in DOMAIN runs |->
        IF \E j \in DOMAIN runs : runs[j].id = id /\ runs[j].name = runs[i].name
        THEN [runs[i] EXCEPT !.status = "completed", !.conclusion = conclusion]
        ELSE runs[i]]

\* the remote side of conclude's PATCH check-runs/<id>
RemoteUpdate(runs, id, conclusion) ==
    [i \in DOMAIN runs |->
        IF runs[i].id = id
        THEN [runs[i] EXCEPT !.status = "completed", !.conclusion = conclusion]
        ELSE runs[i]]

\* check_run_id, the listing filtered by name: [r["id"] for r in ... if r["name"] == check_name]
RECURSIVE matching_ids(_, _)
matching_ids(runs, check_name) ==
    IF Len(runs) = 0 THEN <<>>
    ELSE IF Head(runs).name = check_name
         THEN <<Head(runs).id>> \o matching_ids(Tail(runs), check_name)
         ELSE matching_ids(Tail(runs), check_name)

\* check_run_id where the lookup never creates: no match leaves no current check
check_run_id_no_create(runs, nid, check_name, create_ok) ==
    LET found == matching_ids(runs, check_name) IN
    IF Len(found) = 0
    THEN [error |-> "IndexError", id |-> 0, runs |-> runs, next_id |-> nid, creates |-> 0]
    ELSE [error |-> "none", id |-> found[1], runs |-> runs, next_id |-> nid, creates |-> 0]

\* check_run_id: the first match, or the id of a check run started now;
\* create_ok tells whether the POST of start gets a 2xx response
check_run_id(runs, nid, check_name, create_ok) ==
    LET found == matching_ids(runs, check_name) IN
    IF Len(found) = 0
    THEN IF create_ok
         THEN [error |-> "none", id |-> nid, runs |-> RemoteCreate(runs, nid, check_name),
               next_id |-> nid + 1, creates |-> 1]
         ELSE [error |-> "NetworkError", id |-> 0, runs |-> runs, next_id |-> nid,
               creates |-> 0]
    ELSE [error |-> "none", id |-> found[1], runs |-> runs, next_id |-> nid, creates |-> 0]

\* the from_lines inputs of conclude; NoLines is from_lines=None
NoLines == <<<<"None">>>>

ConcludeLines ==
    {<<>>,
     <<PylintLine(<<"a">>, <<"7">>, <<"W", "0">>, <<"r">>, <<"m">>)>>,
     <<NoteLine, PylintLine(<<"a">>, <<"9">>, <<"C", "9">>, <<"r">>, <<"m">>)>>,
     <<PylintLine(<<"a">>, <<"2">>, <<"I", "1">>, <<"r">>, <<"m">>)>>}

\* the arguments of a conclude call: a conclusion, or lines, or neither
ConcludeArgs ==
    {<<c, NoLines>> : c \in Conclusions} \cup {<<NoConclusion, l>> : l \in ConcludeLines}
    \cup {<<NoConclusion, NoLines>>}

\* the responses to the remote calls of one client call: all 2xx, or one of
\* them not (the call ends there)
NetOutcomes ==
    {[list |-> TRUE, create |-> TRUE, patch |-> TRUE],
     [list |-> FALSE, create |-> TRUE, patch |-> TRUE],
     [list |-> TRUE, create |-> FALSE, patch |-> TRUE],
     [list |-> TRUE, create |-> TRUE, patch |-> FALSE]}

\* conclude: the whole call on the remote state (runs, nid); net tells which of
\* its remote calls (list, create, patch) get a 2xx response.  The result is
\* the remote state afterwards and what the call did.
conclude(runs, nid, check_name, conclusion, from_lines, net) ==
    LET found == Len(matching_ids(runs, check_name))
        cur == check_run_id(runs, nid, check_name, net.create)
        base == [op |-> "conclude", name |-> check_name, found |-> found, error |-> "none",
                 id |-> cur.id, creates |-> cur.creates, updates |-> 0,
                 conclusion |-> NoConclusion, runs |-> cur.runs, next_id |-> cur.next_id]
        derived == Derived(check_name, from_lines)
    IN  IF ~net.list
        THEN [base EXCEPT !.error = "NetworkError", !.id = 0, !.creates = 0,
                          !.runs = runs, !.next_id = nid]
        ELSE IF cur.error # "none" THEN [base EXCEPT !.error = cur.error]
        ELSE IF conclusion # NoConclusion
        THEN IF net.patch
             THEN [base EXCEPT !.error = "none", !.updates = 1, !.conclusion = conclusion,
                               !.runs = RemoteUpdate(cur.runs, cur.id, conclusion)]
             ELSE [base EXCEPT !.error = "NetworkError"]
        ELSE IF from_lines = NoLines THEN [base EXCEPT !.error = AssertionError]
        ELSE IF check_name \notin {"pylint", "mypy"} THEN [base EXCEPT !.error = AssertionError]
        ELSE IF derived.kind = "raise" THEN [base EXCEPT !.error = derived.err]
        ELSE IF net.patch
        THEN [base EXCEPT !.error = "none", !.updates = 1,
                          !.conclusion = derived.conclusion,
                          !.runs = RemoteUpdate(cur.runs, cur.id, derived.conclusion)]
        ELSE [base EXCEPT !.error = "NetworkError"]

\* start: the whole call; ok tells whether its POST gets a 2xx response
start(runs, nid, check_name, ok) ==
    LET base == [op |-> "start", name |-> check_name,
                 found |-> Len(matching_ids(runs, check_name)), error |-> "none",
                 id |-> 0, creates |-> 0, updates |-> 0, conclusion |-> NoConclusion,
                 runs |-> runs, next_id |-> nid]
    IN  IF ok
        THEN [base EXCEPT !.id = nid, !.creates = 1, !.next_id = nid + 1,
                          !.runs = RemoteCreate(runs, nid, check_name)]
        ELSE [base EXCEPT !.error = "NetworkError"]

\* what a call reports, without the remote state
Outcome(r) ==
    [op |-> r.op, name |-> r.name, found |-> r.found, error |-> r.error, id |-> r.id,
     creates |-> r.creates, updates |-> r.updates, conclusion |-> r.conclusion]

NoCall ==
    [op |-> "none", name |-> "none", found |-> 0, error |-> "none", id |-> 0,
     creates |-> 0, updates |-> 0, conclusion |-> NoConclusion]

\* ---------------------------------------------------------------- client actions
\* a caller runs start(ctx, check_name)
Start(check_name) ==
    \E ok \in BOOLEAN :
        LET r == start(check_runs, next_id, check_name, ok) IN
        /\ Len(r.runs) <= MaxRuns
        /\ check_runs' = r.runs
        /\ next_id' = r.next_id
        /\ last' = Outcome(r)
        /\ UNCHANGED <<parseVars, taskVars, ctxVars>>

\* a caller runs conclude(ctx, check_name, conclusion, from_lines)
Conclude(check_name) ==
    \E args \in ConcludeArgs, net \in NetOutcomes :
        LET r == conclude(check_runs, next_id, check_name, args[1], args[2], net) IN
        /\ Len(r.runs) <= MaxRuns
        /\ check_runs' = r.runs
        /\ next_id' = r.next_id
        /\ last' = Outcome(r)
        /\ UNCHANGED <<parseVars, taskVars, ctxVars>>

\* ---------------------------------------------------------------- task graph
Tasks == {"Setup", "Build", "Pylint", "Mypy", "Finally"}

\* run_after with Finally waiting for Pylint only
run_after_pylint_only(t) ==
    CASE t = "Setup" -> {}
      [] t = "Build" -> {"Setup"}
      [] t = "Pylint" -> {"Build"}
      [] t = "Mypy" -> {"Build"}
      [] t = "Finally" -> {"Pylint"}

\* the run_after declarations of tasks.py
run_after(t) ==
    CASE t = "Setup" -> {}
      [] t = "Build" -> {"Setup"}
      [] t = "Pylint" -> {"Build"}
      [] t = "Mypy" -> {"Build"}
      [] t = "Finally" -> {"Pylint", "Mypy"}

\* run_always with no task marked
run_always_unset(t) == FALSE

\* the run_always declarations of tasks.py
run_always(t) == t = "Finally"

\* Mypy.run concluding the check of Pylint.run
CheckOfShared(t) ==
    CASE t = "Pylint" -> "pylint"
      [] t = "Mypy" -> "pylint"
      [] t = "Finally" -> "ci"

\* the check each concluding task concludes
CheckOf(t) ==
    CASE t = "Pylint" -> "pylint"
      [] t = "Mypy" -> "mypy"
      [] t = "Finally" -> "ci"

TerminalStatus == {"success", "failure", "skipped"}

Terminal(t) == status[t] \in TerminalStatus

\* Finally.run with `any` in place of `all`
FinallyConclusionAny(st) ==
    IF \E t \in Tasks \ {"Finally"} : st[t] = "success" THEN "success" ELSE "failure"

\* Finally.run: the conclusion computed from the statuses of the other tasks
FinallyConclusion(st) ==
    IF \A t \in Tasks \ {"Finally"} : st[t] = "success" THEN "success" ELSE "failure"

NoLocals == [lines |-> <<>>, failed |-> FALSE, current_check |-> 0, conclusion |-> NoConclusion]

\* a task's body raised: the task ends in failure
Fail(t) ==
    /\ status' = [status EXCEPT ![t] = "failure"]
    /\ pc' = [pc EXCEPT ![t] = "done"]

\* a task's body returned: the task ends in success
Succeed(t) ==
    /\ status' = [status EXCEPT ![t] = "success"]
    /\ pc' = [pc EXCEPT ![t] = "done"]

Goto(t, label) ==
    /\ pc' = [pc EXCEPT ![t] = label]
    /\ UNCHANGED status

FirstLabel(t) ==
    CASE t = "Setup" -> "stash"
      [] t = "Build" -> "build"
      [] t = "Pylint" -> "run"
      [] t = "Mypy" -> "run"
      [] t = "Finally" -> "unstash"

\* ---------------------------------------------------------------- scheduler
\* a pending task whose predecessors are all terminal starts running, when it is
\* run_always or every predecessor succeeded
TaskStart(t) ==
    /\ status[t] = "pending"
    /\ \A p \in run_after(t) : Terminal(p)
    /\ run_always(t) \/ \A p \in run_after(t) : status[p] = "success"
    /\ status' = [status EXCEPT ![t] = "running"]
    /\ pc' = [pc EXCEPT ![t] = FirstLabel(t)]
    /\ UNCHANGED <<rstate, locals, parseVars, remoteVars, last, ctxVars>>

\* a pending task that is not run_always and has a predecessor that did not
\* succeed is skipped without running its body
TaskSkip(t) ==
    /\ status[t] = "pending"
    /\ \A p \in run_after(t) : Terminal(p)
    /\ ~run_always(t)
    /\ \E p \in run_after(t) : status[p] # "success"
    /\ status' = [status EXCEPT ![t] = "skipped"]
    /\ UNCHANGED <<pc, rstate, locals, parseVars, remoteVars, last, ctxVars>>

\* ---------------------------------------------------------------- task bodies
\* Setup.run: stash the source, name the image, unstash the secrets
SetupStash ==
    /\ status["Setup"] = "running" /\ pc["Setup"] = "stash"
    /\ \E ok \in BOOLEAN :
        IF ok
        THEN /\ rstate' = [rstate EXCEPT !.source = TRUE]
             /\ Goto("Setup", "ctx")
        ELSE /\ Fail("Setup")
             /\ UNCHANGED rstate
    /\ UNCHANGED <<locals, parseVars, remoteVars, last, ctxVars>>

\* Setup.run: self.state.ctx = get_checks_ctx(commit), which mints the token
SetupCtx ==
    /\ status["Setup"] = "running" /\ pc["Setup"] = "ctx"
    /\ \E ok \in BOOLEAN :
        IF ok
        THEN /\ rstate' = [rstate EXCEPT !.ctx = TRUE]
             /\ Goto("Setup", "start_ci")
        ELSE /\ Fail("Setup")
             /\ UNCHANGED rstate
    /\ UNCHANGED <<locals, parseVars, remoteVars, last, ctxVars>>

\* Setup.run: the three checks.start calls, in order ci, pylint, mypy
SetupStart(check_name) ==
    /\ status["Setup"] = "running"
    /\ \/ check_name = "ci" /\ pc["Setup"] = "start_ci"
       \/ check_name = "pylint" /\ pc["Setup"] = "start_pylint"
       \/ check_name = "mypy" /\ pc["Setup"] = "start_mypy"
    /\ \E ok \in BOOLEAN :
        LET r == start(check_runs, next_id, check_name, ok) IN
        /\ check_runs' = r.runs
        /\ next_id' = r.next_id
        /\ last' = Outcome(r)
        /\ IF r.error # "none" THEN Fail("Setup")
           ELSE IF check_name = "ci" THEN Goto("Setup", "start_pylint")
           ELSE IF check_name = "pylint" THEN Goto("Setup", "start_mypy")
           ELSE Succeed("Setup")
    /\ UNCHANGED <<rstate, locals, parseVars, ctxVars>>

\* Build.run: unstash the source and build the image
BuildRun ==
    /\ status["Build"] = "running" /\ pc["Build"] = "build"
    /\ \E ok \in BOOLEAN : IF ok THEN Succeed("Build") ELSE Fail("Build")
    /\ UNCHANGED <<rstate, locals, parseVars, remoteVars, last, ctxVars>>

\* the outputs of the tools: those given to conclude, a mypy error line and a
\* pylint error line
ToolLines ==
    ConcludeLines
        \cup {<<MypyScenarioLine>>,
              <<PylintLine(<<"a">>, <<"5">>, <<"E", "1">>, <<"r">>, <<"m">>)>>}

\* Pylint.run / Mypy.run: start the container and run_and_capture_lines, which
\* returns the output and whether the command exited non-zero
RunTool(t) ==
    /\ t \in {"Pylint", "Mypy"}
    /\ status[t] = "running" /\ pc[t] = "run"
    /\ \E up \in BOOLEAN, out \in ToolLines, failed \in BOOLEAN :
        IF up
        THEN /\ locals' = [locals EXCEPT ![t].lines = out, ![t].failed = failed]
             /\ Goto(t, "list")
        ELSE /\ Fail(t)
             /\ UNCHANGED locals
    /\ UNCHANGED <<rstate, parseVars, remoteVars, last, ctxVars>>

\* Finally.run: unstash the source and compute the conclusion of the run
FinallyUnstash ==
    /\ status["Finally"] = "running" /\ pc["Finally"] = "unstash"
    /\ \E ok \in BOOLEAN :
        IF ok /\ rstate.source /\ rstate.ctx
        THEN /\ locals' = [locals EXCEPT !["Finally"].conclusion = FinallyConclusion(status)]
             /\ Goto("Finally", "list")
        ELSE /\ Fail("Finally")
             /\ UNCHANGED locals
    /\ UNCHANGED <<rstate, parseVars, remoteVars, last, ctxVars>>

\* conclude, first remote call: check_run_id lists the check runs of the commit
ConcludeList(t) ==
    /\ t \in {"Pylint", "Mypy", "Finally"}
    /\ status[t] = "running" /\ pc[t] = "list"
    /\ \E ok \in BOOLEAN :
        LET found == matching_ids(check_runs, CheckOf(t)) IN
        IF ~ok THEN Fail(t) /\ UNCHANGED locals
        ELSE IF Len(found) = 0 THEN Goto(t, "create") /\ UNCHANGED locals
        ELSE /\ locals' = [locals EXCEPT ![t].current_check = found[1]]
             /\ Goto(t, "patch")
    /\ UNCHANGED <<rstate, parseVars, remoteVars, last, ctxVars>>

\* conclude, check_run_id found no check run of that name: it starts one
ConcludeCreate(t) ==
    /\ t \in {"Pylint", "Mypy", "Finally"}
    /\ status[t] = "running" /\ pc[t] = "create"
    /\ \E ok \in BOOLEAN :
        LET r == start(check_runs, next_id, CheckOf(t), ok) IN
        /\ check_runs' = r.runs
        /\ next_id' = r.next_id
        /\ last' = Outcome(r)
        /\ IF r.error # "none" THEN Fail(t) /\ UNCHANGED locals
           ELSE /\ locals' = [locals EXCEPT ![t].current_check = r.id]
                /\ Goto(t, "patch")
    /\ UNCHANGED <<rstate, parseVars, ctxVars>>

\* Mypy.run with the `assert not failed` left out
AfterConcludeNoAssert(t) == Succeed(t)

\* Pylint.run given the `assert not failed` of Mypy.run
AfterConcludeAssertBoth(t) == IF locals[t].failed THEN Fail(t) ELSE Succeed(t)

\* the rest of run() after conclude returned: Mypy.run asserts that the command
\* did not fail, Pylint.run and Finally.run return
AfterConclude(t) == IF t = "Mypy" /\ locals[t].failed THEN Fail(t) ELSE Succeed(t)

\* conclude, the completing update: with the conclusion given (Finally) or
\* with the one derived from the lines (Pylint, Mypy); then the rest of run()
ConcludePatch(t) ==
    /\ t \in {"Pylint", "Mypy", "Finally"}
    /\ status[t] = "running" /\ pc[t] = "patch"
    /\ \E ok \in BOOLEAN, derived \in {Derived(CheckOf(t), locals[t].lines)} :
        LET raised == t # "Finally" /\ derived.kind = "raise"
            conclusion == IF t = "Finally" THEN locals[t].conclusion
                          ELSE derived.conclusion
        IN  IF raised \/ ~ok
            THEN /\ Fail(t)
                 /\ UNCHANGED <<remoteVars, last>>
            ELSE /\ check_runs' = RemoteUpdate(check_runs, locals[t].current_check, conclusion)
                 /\ last' = [NoCall EXCEPT !.op = "conclude", !.name = CheckOf(t),
                                          !.found = Len(matching_ids(check_runs, CheckOf(t))),
                                          !.id = locals[t].current_check, !.updates = 1,
                                          !.conclusion = conclusion]
                 /\ UNCHANGED next_id
                 /\ AfterConclude(t)
    /\ UNCHANGED <<rstate, locals, parseVars, ctxVars>>

\* ---------------------------------------------------------------- configuration
\* get_ctx of checks/checks.py on the environment e: e.repo, e.sha, e.token tell
\* whether REPO, SHA, TOKEN are set; e.git whether `git rev-parse HEAD` succeeds;
\* e.key whether private_key.pem can be read; e.net whether the token request
\* gets a 2xx response.  remote_calls counts the remote calls made.
get_ctx(e) ==
    LET out == [kind |-> "done", version |-> "checks/checks.py", error |-> "none",
                remote_calls |-> 0]
        minted == IF e.token THEN 0 ELSE 1
    IN  IF ~e.sha /\ ~e.git THEN [out EXCEPT !.error = "CalledProcessError"]
        ELSE IF ~e.token /\ ~e.key THEN [out EXCEPT !.error = "FileNotFoundError"]
        ELSE IF ~e.token /\ ~e.net
        THEN [out EXCEPT !.error = "NetworkError", !.remote_calls = 1]
        ELSE IF ~e.repo THEN [out EXCEPT !.error = AssertionError, !.remote_calls = minted]
        ELSE [out EXCEPT !.remote_calls = minted]

\* get_ctx of checks.py
get_ctx_legacy(e) ==
    LET out == [kind |-> "done", version |-> "checks.py", error |-> "none",
                remote_calls |-> 0]
        minted == IF e.token THEN 0 ELSE 1
    IN  IF ~e.token /\ ~e.key THEN [out EXCEPT !.error = "FileNotFoundError"]
        ELSE IF ~e.token /\ ~e.net
        THEN [out EXCEPT !.error = "NetworkError", !.remote_calls = 1]
        ELSE IF ~e.repo THEN [out EXCEPT !.error = AssertionError, !.remote_calls = minted]
        ELSE IF ~e.sha THEN [out EXCEPT !.error = AssertionError, !.remote_calls = minted]
        ELSE [out EXCEPT !.remote_calls = minted]

Environments ==
    [repo : BOOLEAN, sha : BOOLEAN, token : BOOLEAN, git : BOOLEAN, key : BOOLEAN,
     net : BOOLEAN]

GetCtx ==
    /\ ctx_out = Pending
    /\ ctx_out' = get_ctx(env)
    /\ UNCHANGED <<env, parseVars, remoteVars, last, taskVars>>

GetCtxLegacy ==
    /\ ctx_out = Pending
    /\ ctx_out' = get_ctx_legacy(env)
    /\ UNCHANGED <<env, parseVars, remoteVars, last, taskVars>>

\* ---------------------------------------------------------------- specifications
IdleParse == lines = <<>> /\ dialect = "none" /\ parsed = Pending

IdleRemote == check_runs = <<>> /\ next_id = 1 /\ last = NoCall

IdleTasks ==
    /\ status = [t \in Tasks |-> "pending"]
    /\ pc = [t \in Tasks |-> "idle"]
    /\ rstate = [source |-> FALSE, ctx |-> FALSE]
    /\ locals = [t \in Tasks |-> NoLocals]

IdleCtx ==
    /\ env = [repo |-> TRUE, sha |-> TRUE, token |-> TRUE, git |-> TRUE, key |-> TRUE,
              net |-> TRUE]
    /\ ctx_out = Pending

\* the check-run client under any sequence of start and conclude calls
Init == IdleParse /\ IdleRemote /\ IdleTasks /\ IdleCtx

Next == (\E n \in ClientNames : Start(n)) \/ (\E n \in ClientNames : Conclude(n))

Spec == Init /\ [][Next]_vars

\* the parsers on bounded inputs
InitParse ==
    /\ lines \in ParseInputs
    /\ dialect = "none"
    /\ parsed = Pending
    /\ IdleRemote /\ IdleTasks /\ IdleCtx

NextParse == ParsePylint \/ ParseMypy

SpecParse == InitParse /\ [][NextParse]_vars

\* one run of the pipeline Setup -> Build -> {Pylint, Mypy} -> Finally
InitPipeline == IdleParse /\ IdleRemote /\ IdleTasks /\ IdleCtx

NextPipeline ==
    \/ \E t \in Tasks : TaskStart(t)
    \/ \E t \in Tasks : TaskSkip(t)
    \/ SetupStash
    \/ SetupCtx
    \/ \E n \in CheckNames : SetupStart(n)
    \/ BuildRun
    \/ \E t \in Tasks : RunTool(t)
    \/ FinallyUnstash
    \/ \E t \in Tasks : ConcludeList(t)
    \/ \E t \in Tasks : ConcludeCreate(t)
    \/ \E t \in Tasks : ConcludePatch(t)

SpecPipeline == InitPipeline /\ [][NextPipeline]_vars

\* get_ctx on every environment
InitCtx ==
    /\ env \in Environments
    /\ ctx_out = Pending
    /\ IdleParse /\ IdleRemote /\ IdleTasks

NextCtx == GetCtx \/ GetCtxLegacy

SpecCtx == InitCtx /\ [][NextCtx]_vars

\* ---------------------------------------------------------------- properties
RunsNamed(runs, n) == {i \in DOMAIN runs : runs[i].name = n}

\* the lifecycle state of a check name on the commit
NameState(runs, n) ==
    IF RunsNamed(runs, n) = {} THEN "absent"
    ELSE IF \E i \in RunsNamed(runs, n) : runs[i].status = "in_progress" THEN "in_progress"
    ELSE "completed"

Rank(st) == CASE st = "absent" -> 0 [] st = "in_progress" -> 1 [] st = "completed" -> 2

AllOthersSucceeded == \A t \in Tasks \ {"Finally"} : status[t] = "success"

Severities(anns) == {anns[i].level : i \in DOMAIN anns}

\* C1: start is idempotent per (repository, commit, name): the listing never
\* holds two check runs of one name, and two successful start calls in a row
\* for the same name return the same id.
C1_StartIdempotent ==
    [][/\ \A n \in CheckNames : Cardinality(RunsNamed(check_runs', n)) <= 1
       /\ (/\ last.op = "start" /\ last.error = "none"
           /\ last'.op = "start" /\ last'.error = "none"
           /\ last'.name = last.name) => last'.id = last.id]_vars

C3_LifecycleForward ==
    [][/\ \A n \in CheckNames :
            Rank(NameState(check_runs', n)) >= Rank(NameState(check_runs, n))
       /\ \A i \in DOMAIN check_runs' :
            (check_runs'[i].conclusion # NoConclusion)
                <=> (check_runs'[i].status = "completed")]_vars

\* C4: when the run has terminated (every task terminal), every check run
\* that was started is completed.
C4_StartedChecksCompleted ==
    (\A t \in Tasks : Terminal(t))
        => \A i \in DOMAIN check_runs : check_runs[i].status = "completed"

\* C5: the 'ci' check is concluded with success iff every task other than
\* Finally has status success, and with failure otherwise; Finally is never
\* skipped and computes exactly that conclusion.
C5_UmbrellaConclusion ==
    /\ status["Finally"] # "skipped"
    /\ pc["Finally"] \in {"list", "create", "patch"}
        => locals["Finally"].conclusion
             = (IF AllOthersSucceeded THEN "success" ELSE "failure")
    /\ \A i \in DOMAIN check_runs :
        (check_runs[i].name = "ci" /\ check_runs[i].status = "completed")
            => /\ status["Finally"] = "success"
               /\ check_runs[i].conclusion
                    = (IF AllOthersSucceeded THEN "success" ELSE "failure")

C5_Witness ==
    /\ status["Pylint"] = "failure" /\ status["Mypy"] = "success"
    /\ status["Finally"] = "success"
    /\ \E i \in DOMAIN check_runs :
        /\ check_runs[i].name = "ci" /\ check_runs[i].status = "completed"
        /\ check_runs[i].conclusion = "failure"

\* C6: Finally (run_always, after Pylint and Mypy) is never skipped, has not
\* started while Pylint or Mypy is pending or running, and can start as soon
\* as both are terminal, whatever their outcomes.
C6_RunAlways ==
    /\ status["Finally"] # "skipped"
    /\ status["Finally"] # "pending" => (Terminal("Pylint") /\ Terminal("Mypy"))
    /\ (status["Finally"] = "pending" /\ Terminal("Pylint") /\ Terminal("Mypy"))
        => ENABLED TaskStart("Finally")

C6_Witness ==
    /\ status["Pylint"] = "failure" /\ status["Mypy"] = "failure"
    /\ status["Finally"] = "running" /\ pc["Finally"] = "list"

\* C7: when REPO or SHA is not supplied, get_ctx aborts with a configuration
\* error before any remote call, the token request included.
C7_ConfigErrorBeforeRemote ==
    (ctx_out.kind = "done" /\ (~env.repo \/ ~env.sha))
        => (ctx_out.error = AssertionError /\ ctx_out.remote_calls = 0)

\* C8: the conclusion of a batch is failure if a failure is present, else
\* failure if a warning is present, else neutral if a notice is present, else
\* success; it depends only on the set of severities present.
C8_Conclusion ==
    parsed.kind = "ok"
        => LET S == Severities(parsed.annotations.annotations) IN
           parsed.conclusion
             = (CASE FAILURE \in S -> "failure"
                  [] FAILURE \notin S /\ WARNING \in S -> "failure"
                  [] S = {NOTICE} -> "neutral"
                  [] S = {} -> "success")

C8_Witness ==
    /\ parsed.kind = "ok"
    /\ Severities(parsed.annotations.annotations) = {WARNING, NOTICE}
    /\ Len(parsed.annotations.annotations) = 3
    /\ parsed.conclusion = "failure"

ScenarioAnnotation ==
    Annotation(Loc(<<"s", "r", "c", "/", "x", ".", "p", "y">>, 5), WARNING,
               <<"f", "o", "o", " ", "i", "m", "p", "o", "r", "t", "e", "d", " ", "b", "u",
                 "t", " ", "u", "n", "u", "s", "e", "d">>,
               <<"u", "n", "u", "s", "e", "d", "-", "i", "m", "p", "o", "r", "t">>)

\* C9 as stated: the pylint parser on the line
\* "src/x.py:5:1: W0611 (unused-import) foo imported but unused" yields the one
\* Annotation (src/x.py, 5, warning, "unused-import", "foo imported but
\* unused") and the conclusion of the batch is failure.
C9_ScenarioAsStated ==
    (dialect = "pylint" /\ lines = <<ScenarioLine>> /\ parsed # Pending)
        => /\ parsed.kind = "ok"
           /\ parsed.annotations.annotations = <<ScenarioAnnotation>>
           /\ parsed.conclusion = "failure"

\* C9 amended: on that line the pylint parser yields no Annotation and the
\* conclusion is success; on the bracketed line
\* "src/x.py:5: [W0611(unused-import)] foo imported but unused" it yields that
\* one Annotation and the conclusion is failure.
C9_Scenario ==
    /\ (dialect = "pylint" /\ lines = <<ScenarioLine>> /\ parsed # Pending)
        => /\ parsed.kind = "ok"
           /\ parsed.annotations.annotations = <<>>
           /\ parsed.conclusion = "success"
    /\ (dialect = "pylint" /\ lines = <<BracketedScenarioLine>> /\ parsed # Pending)
        => /\ parsed.kind = "ok"
           /\ parsed.annotations.annotations = <<ScenarioAnnotation>>
           /\ parsed.conclusion = "failure"

C9_Witness ==
    /\ dialect = "pylint" /\ lines = <<BracketedScenarioLine>>
    /\ parsed.kind = "ok" /\ parsed.conclusion = "failure"

\* C10: for every line "path:line: [code(rule)] msg" the pylint parser yields
\* the Annotation (path, line, severity of the first character of code, title
\* rule, message msg trimmed), with E,F -> failure, W -> warning, R,C -> notice,
\* and raises an unsupported-input error for any other first character.
C10_PylintMapping ==
    (dialect = "pylint" /\ parsed # Pending /\ Len(lines) = 1)
        => \A p \in GenPaths, n \in GenLineNos, c \in GenCodes, r \in GenRules,
              m \in GenMsgs :
            lines[1] = PylintLine(p, n, c, r, m)
                => IF c[1] \in {"E", "F", "W", "R", "C"}
                   THEN /\ parsed.kind = "ok"
                        /\ parsed.annotations.annotations
                             = <<Annotation(Loc(p, int(n)),
                                            CASE c[1] \in {"E", "F"} -> FAILURE
                                              [] c[1] = "W" -> WARNING
                                              [] c[1] \in {"R", "C"} -> NOTICE,
                                            strip(m), r)>>
                   ELSE parsed.kind = "raise" /\ parsed.err = AssertionError

\* the lines of the inputs that are in the Dialect-B form "path:line: [code(rule)] msg"
IsPylintLine(l) ==
    \/ l = BracketedScenarioLine
    \/ \E p \in GenPaths, n \in GenLineNos, c \in GenCodes, r \in GenRules, m \in GenMsgs :
        l = PylintLine(p, n, c, r, m)

\* ... and whose code starts with a character that has a severity
PylintCodeKnown(l) ==
    \/ l = BracketedScenarioLine
    \/ \E p \in GenPaths, n \in GenLineNos, c \in GenCodes, r \in GenRules, m \in GenMsgs :
        l = PylintLine(p, n, c, r, m) /\ c[1] \in {"E", "F", "W", "R", "C"}

\* the lines of the inputs that are in the Dialect-A form "path:line: level: msg"
IsMypyLine(l) ==
    \/ l = MypyScenarioLine
    \/ \E p \in GenPaths, n \in GenLineNos, lv \in GenLevels, m \in GenMypyMsgs :
        l = MypyLine(p, n, lv, m)

\* ... and whose level is "error"
MypyLevelKnown(l) ==
    \/ l = MypyScenarioLine
    \/ \E p \in GenPaths, n \in GenLineNos, m \in GenMypyMsgs :
        l = MypyLine(p, n, <<"e", "r", "r", "o", "r">>, m)

Matches(d, l) == IF d = "pylint" THEN IsPylintLine(l) ELSE IsMypyLine(l)

TokenKnown(d, l) == IF d = "pylint" THEN PylintCodeKnown(l) ELSE MypyLevelKnown(l)

MatchingLines(d, ls) == SelectSeq(ls, LAMBDA l : Matches(d, l))

LineNoOf(n) == CASE n = <<"5">> -> 5 [] n = <<"1", "0">> -> 10

\* C11: for both parsers, a line that does not fully match the dialect grammar
\* yields no Annotation and raises no error; the parse raises exactly when a
\* line that otherwise matches carries an unrecognized severity token; the
\* annotations are those of the matching lines, in the order of the lines.
C11_NonMatchingSkipped ==
    parsed # Pending
        => /\ parsed.kind = "raise"
                <=> \E i \in DOMAIN lines :
                        Matches(dialect, lines[i]) /\ ~TokenKnown(dialect, lines[i])
           /\ parsed.kind = "ok"
                => parsed.annotations.annotations
                     = [i \in DOMAIN MatchingLines(dialect, lines) |->
                            ParseLine(dialect, MatchingLines(dialect, lines)[i])]

\* C12: the mypy parser turns every line "path:line: error: msg" into the one
\* Annotation (path, line, failure, msg); a located line with any other level
\* token raises an unsupported-input error; lines without a valid location
\* yield no Annotation.
C12_MypyLines ==
    (dialect = "mypy" /\ parsed # Pending /\ Len(lines) = 1)
        => /\ \A p \in GenPaths, n \in GenLineNos, lv \in GenLevels, m \in GenMypyMsgs :
                lines[1] = MypyLine(p, n, lv, m)
                    => IF lv = <<"e", "r", "r", "o", "r">>
                       THEN /\ parsed.kind = "ok"
                            /\ parsed.annotations.annotations
                                 = <<Annotation(Loc(p, LineNoOf(n)), FAILURE, m, <<>>)>>
                            /\ parsed.conclusion = "failure"
                       ELSE parsed.kind = "raise" /\ parsed.err = AssertionError
           /\ lines[1] = MypyScenarioLine
                => /\ parsed.kind = "ok"
                   /\ parsed.annotations.annotations
                        = <<Annotation(Loc(<<"s", "r", "c", "/", "a", "p", "p", ".", "p", "y">>, 10),
                                       FAILURE,
                                       <<"b", "a", "d", " ", "t", "y", "p", "e">>, <<>>)>>
           /\ lines[1] \in {NoteLine, ScenarioLine, <<>>}
                => parsed.kind = "ok" /\ parsed.annotations.annotations = <<>>

C12_Witness ==
    /\ dialect = "mypy" /\ lines = <<MypyScenarioLine>>
    /\ parsed.kind = "ok" /\ Len(parsed.annotations.annotations) = 1

\* the task graph Setup -> Build -> {Pylint, Mypy} -> Finally
GraphPreds(t) ==
    CASE t = "Setup" -> {}
      [] t = "Build" -> {"Setup"}
      [] t \in {"Pylint", "Mypy"} -> {"Build"}
      [] t = "Finally" -> {"Pylint", "Mypy"}

StatusRank(st) == CASE st = "pending" -> 0 [] st = "running" -> 1 [] OTHER -> 2

PcRank(label) ==
    CASE label = "idle" -> 0
      [] label \in {"stash", "build", "run", "unstash"} -> 1
      [] label \in {"ctx", "list"} -> 2
      [] label \in {"start_ci", "create"} -> 3
      [] label \in {"start_pylint", "patch"} -> 4
      [] label = "start_mypy" -> 5
      [] label = "done" -> 6

\* how far the run has come: it grows with every step and is at most 8 per task
RunProgress(st, at) ==
    StatusRank(st["Setup"]) + PcRank(at["Setup"]) + StatusRank(st["Build"]) + PcRank(at["Build"])
    + StatusRank(st["Pylint"]) + PcRank(at["Pylint"]) + StatusRank(st["Mypy"]) + PcRank(at["Mypy"])
    + StatusRank(st["Finally"]) + PcRank(at["Finally"])

\* the steps of each task's body
BodyLabels(t) ==
    CASE t = "Setup" -> {"stash", "ctx", "start_ci", "start_pylint", "start_mypy"}
      [] t = "Build" -> {"build"}
      [] t \in {"Pylint", "Mypy"} -> {"run", "list", "create", "patch"}
      [] t = "Finally" -> {"unstash", "list", "create", "patch"}

\* C13: in the graph Setup -> Build -> {Pylint, Mypy} -> Finally no task is
\* running (or has run) before all its predecessors are terminal; a task not
\* marked run_always with a non-success predecessor never runs its body and
\* is not given another status than skipped; a terminal status never changes;
\* every task reaches a terminal status: every step advances the run, and
\* while a task is not terminal some task is at a step of its body or is
\* pending with all its predecessors terminal.
C13_TaskLifecycle ==
    /\ [](\A t \in Tasks :
            status[t] \in {"running", "success", "failure"}
                => \A p \in GraphPreds(t) : status[p] \in {"success", "failure", "skipped"})
    /\ [](\A t \in Tasks \ {"Finally"} :
            (\E p \in GraphPreds(t) : status[p] \in {"failure", "skipped"})
                => status[t] \in {"pending", "skipped"} /\ pc[t] = "idle")
    /\ [][\A t \in Tasks :
            status[t] \in {"success", "failure", "skipped"} => status'[t] = status[t]]_vars
    /\ [][RunProgress(status', pc') > RunProgress(status, pc)]_vars
    /\ []((\A t \in Tasks : status[t] \in {"success", "failure", "skipped"})
          \/ \E t \in Tasks :
                \/ status[t] = "running" /\ pc[t] \in BodyLabels(t)
                \/ /\ status[t] = "pending"
                   /\ \A p \in GraphPreds(t) : status[p] \in {"success", "failure", "skipped"})

C13_Witness ==
    /\ status["Build"] = "failure"
    /\ status["Pylint"] = "skipped" /\ pc["Pylint"] = "idle"
    /\ status["Mypy"] = "skipped" /\ pc["Mypy"] = "idle"
    /\ status["Finally"] \in {"success", "failure"}

\* the place in the listing of the first check run named n
FirstNamed(runs, n) ==
    CHOOSE i \in RunsNamed(runs, n) : \A j \in RunsNamed(runs, n) : i <= j

\* C14: a conclude call for a name the listing holds (once or several times)
\* updates the first check run of that name in the order of the listing, if
\* it updates at all, and leaves every other check run, of the same name or
\* of another, as it was.
C14_UpdatesFirstMatch ==
    [][(last'.op = "conclude" /\ RunsNamed(check_runs, last'.name) # {})
        => /\ Len(check_runs') = Len(check_runs)
           /\ \A i \in DOMAIN check_runs :
                i # FirstNamed(check_runs, last'.name) => check_runs'[i] = check_runs[i]
           /\ IF last'.updates = 1
              THEN /\ last'.id = check_runs[FirstNamed(check_runs, last'.name)].id
                   /\ check_runs'[FirstNamed(check_runs, last'.name)]
                        = [check_runs[FirstNamed(check_runs, last'.name)]
                             EXCEPT !.status = "completed", !.conclusion = last'.conclusion]
              ELSE check_runs' = check_runs]_vars

C14_Witness ==
    /\ Len(check_runs) = 2 /\ check_runs[1].name = check_runs[2].name
    /\ last.op = "conclude" /\ last.found = 2 /\ last.updates = 1
    /\ check_runs[1].id = last.id /\ check_runs[1].status = "completed"
    /\ check_runs[2].status = "in_progress"

\* the task that concludes each check name in tasks.py
OwnerOf(n) == CASE n = "pylint" -> "Pylint" [] n = "mypy" -> "Mypy" [] n = "ci" -> "Finally"

\* C15: in every interleaving of Pylint, Mypy and Finally each check run is
\* updated at most once, by the task that owns its name and in a step of that
\* task alone, and no name has two check runs; where Pylint and Mypy are both
\* about to send their update, the two updates give the same remote state in
\* either order, and a completed 'pylint' or 'mypy' check run holds the
\* conclusion derived from its own task's lines.
C15_OneTaskPerCheck ==
    /\ [][\A i \in DOMAIN check_runs, j \in DOMAIN check_runs' :
            (check_runs'[j].id = check_runs[i].id /\ check_runs'[j] # check_runs[i])
                => /\ check_runs[i].status = "in_progress"
                   /\ status[OwnerOf(check_runs[i].name)] = "running"
                   /\ status'[OwnerOf(check_runs[i].name)] \in {"success", "failure"}
                   /\ \A t \in Tasks \ {OwnerOf(check_runs[i].name)} :
                        status'[t] = status[t] /\ pc'[t] = pc[t]]_vars
    /\ [](\A n \in CheckNames : Cardinality(RunsNamed(check_runs, n)) <= 1)
    /\ []((pc["Pylint"] = "patch" /\ pc["Mypy"] = "patch")
            => \A c1 \in Conclusions, c2 \in Conclusions :
                 RemoteUpdate(RemoteUpdate(check_runs, locals["Pylint"].current_check, c1),
                              locals["Mypy"].current_check, c2)
                   = RemoteUpdate(RemoteUpdate(check_runs, locals["Mypy"].current_check, c2),
                                  locals["Pylint"].current_check, c1))
    /\ [](\A i \in DOMAIN check_runs :
            (check_runs[i].name \in {"pylint", "mypy"} /\ check_runs[i].status = "completed")
                => check_runs[i].conclusion
                     = Derived(check_runs[i].name,
                               locals[OwnerOf(check_runs[i].name)].lines).conclusion)

C15_Witness ==
    /\ status["Mypy"] = "running" /\ pc["Mypy"] = "patch"
    /\ status["Pylint"] = "success"
    /\ \E i \in DOMAIN check_runs :
        /\ check_runs[i].name = "pylint" /\ check_runs[i].status = "completed"
        /\ check_runs[i].conclusion = "neutral"
    /\ \E i \in DOMAIN check_runs :
        check_runs[i].name = "mypy" /\ check_runs[i].status = "in_progress"

\* the check run named n is completed (with conclusion c)
Published(n) ==
    \E i \in DOMAIN check_runs : check_runs[i].name = n /\ check_runs[i].status = "completed"

PublishedWith(n, c) ==
    \E i \in DOMAIN check_runs :
        /\ check_runs[i].name = n /\ check_runs[i].status = "completed"
        /\ check_runs[i].conclusion = c

\* C16: when the type-check command exits non-zero the Mypy task goes on to
\* conclude with the captured lines instead of ending; it ends in failure in
\* the step that publishes the 'mypy' check, whose conclusion is derived from
\* those lines; without the publication it ends in failure only inside
\* conclude (a remote call failed or the parse raised), and it never ends in
\* success.
C16_MypyPublishesThenFails ==
    /\ [][(pc["Mypy"] = "run" /\ locals'["Mypy"].failed)
            => /\ status'["Mypy"] = "running" /\ pc'["Mypy"] = "list"
               /\ ~Published("mypy")]_vars
    /\ []((locals["Mypy"].failed /\ Published("mypy"))
            => /\ status["Mypy"] = "failure"
               /\ PublishedWith("mypy", Derived("mypy", locals["Mypy"].lines).conclusion))
    /\ [][(locals["Mypy"].failed /\ status["Mypy"] = "running" /\ status'["Mypy"] # "running")
            => /\ status'["Mypy"] = "failure"
               /\ pc["Mypy"] \in {"list", "create", "patch"}
               /\ pc["Mypy"] \in {"list", "create"} => ~Published("mypy")']_vars
    /\ [](status["Mypy"] = "success" => ~locals["Mypy"].failed /\ Published("mypy"))

C16_Witness ==
    /\ locals["Mypy"].failed /\ locals["Mypy"].lines = <<MypyScenarioLine>>
    /\ status["Mypy"] = "failure"
    /\ PublishedWith("mypy", "failure")

\* C17: the Pylint task ends in success exactly when its conclude returned,
\* that is when the 'pylint' check is published, whatever the exit status of
\* the lint command and whatever the conclusion published; the 'ci'
\* conclusion follows the task statuses, so it is success when every task
\* returned normally even with a 'pylint' check concluded failure.
C17_PylintStatusIgnoresResult ==
    /\ Published("pylint") <=> status["Pylint"] = "success"
    /\ \A c \in Conclusions :
        (PublishedWith("pylint", c) /\ Published("ci")
            /\ \A t \in Tasks \ {"Finally"} : status[t] = "success")
                => PublishedWith("ci", "success")

C17_Witness ==
    /\ locals["Pylint"].failed
    /\ PublishedWith("pylint", "failure")
    /\ status["Pylint"] = "success"
    /\ PublishedWith("ci", "success")

\* C18: a conclude call that raises AssertionError (unsupported severity
\* token, a name other than 'pylint' or 'mypy' in derived mode, neither a
\* conclusion nor lines) leaves the check runs of the commit unchanged: none
\* is created and none changes status or conclusion.
C18_RaiseLeavesRemote ==
    [][(last'.op = "conclude" /\ last'.error = AssertionError)
        => check_runs' = check_runs]_vars

====
